---------------------------- MODULE Spec2Model ----------------------------
(***************************************************************************)
(* docker-updater: updateContainer(repo, tag) of src/main.go.               *)
(*                                                                         *)
(* src/main.go holds two copies of the program: lines 1-262 (the copy      *)
(* whose selection also compares prerelease and metadata) and lines        *)
(* 264-509 (the copy that selects on LessThan alone).  The variable        *)
(* `build` says which copy the running binary was built from.              *)
(*                                                                         *)
(* A string is a sequence of tokens; ":" "." "-" "+" "v" are tokens of     *)
(* their own, so that strings.Split, fmt.Sprintf, strings.TrimSuffix and   *)
(* semver.NewVersion are computed on the text and not looked up.           *)
(***************************************************************************)
EXTENDS Integers, Sequences, FiniteSets, TLC

\* ------------------------------------------------------------------ strings

\* const latest = "latest"
latest == <<"latest">>

\* the empty string ""
Empty == <<>>

\* strings.Split(s, ":") continued from position i with the current piece cur
RECURSIVE SplitFrom(_, _, _, _)
SplitFrom(s, i, cur, acc) ==
    IF i > Len(s) THEN Append(acc, cur)
    ELSE IF s[i] = ":" THEN SplitFrom(s, i + 1, <<>>, Append(acc, cur))
    ELSE SplitFrom(s, i + 1, Append(cur, s[i]), acc)

\* iParts := strings.Split(cnt.Image, ":")
Split(s) == SplitFrom(s, 1, <<>>, <<>>)

\* var cRepo = iParts[0]
cRepoOf(image) == Split(image)[1]

\* cTag = iParts[1] when len(iParts) > 1, and latest when that is ""
cTagFrom(iParts) ==
    IF Len(iParts) > 1 /\ iParts[2] # Empty THEN iParts[2] ELSE latest

cTagOf(image) == cTagFrom(Split(image))

\* fmt.Sprintf("%s:%s", repo, tag)
fullRepoOf(repo, tag) == repo \o <<":">> \o tag

\* strings.TrimSuffix(s, suffix)
TrimSuffix(s, suffix) ==
    IF Len(s) >= Len(suffix)
       /\ SubSeq(s, Len(s) - Len(suffix) + 1, Len(s)) = suffix
    THEN SubSeq(s, 1, Len(s) - Len(suffix))
    ELSE s

\* contConfig.Image = strings.TrimSuffix(fullRepo, ":"+latest)
newImageOf(repo, tag) == TrimSuffix(fullRepoOf(repo, tag), <<":">> \o latest)

\* ------------------------------------------------------------------- semver

\* strconv on the decimal numerals of the model's alphabet
NumVal == ("0" :> 0) @@ ("1" :> 1) @@ ("2" :> 2) @@ ("3" :> 3)

IsNum(t) == t \in DOMAIN NumVal

\* byte order of the identifier tokens ('-' < digits < letters)
Rank == ("-" :> 0) @@ ("0" :> 1) @@ ("1" :> 2) @@ ("2" :> 3) @@ ("3" :> 4)
        @@ ("beta" :> 5) @@ ("build1" :> 6) @@ ("rc" :> 7)

IsIdent(t) == t \in DOMAIN Rank

\* [0-9A-Za-z\-]+(\.[0-9A-Za-z\-]+)*
DottedIdents(s) ==
    /\ Len(s) > 0
    /\ \A i \in 1..Len(s) : IsIdent(s[i]) \/ s[i] = "."
    /\ s[1] # "." /\ s[Len(s)] # "."
    /\ \A i \in 1..(Len(s) - 1) : ~(s[i] = "." /\ s[i + 1] = ".")

\* index of the first "+" of s, Len(s)+1 when there is none
RECURSIVE PlusAt(_, _)
PlusAt(s, i) ==
    IF i > Len(s) THEN i ELSE IF s[i] = "+" THEN i ELSE PlusAt(s, i + 1)

\* a failed parse: (nil, ErrInvalidSemVer)
NoVersion == [ok |-> FALSE, major |-> 0, minor |-> 0, patch |-> 0,
              pre |-> Empty, metadata |-> Empty]

\* the end of a parse: the prerelease and what follows it, which is nothing
\* or '+' and the metadata
ParseMeta(major, minor, patch, hasPre, pre, r4) ==
    IF /\ (hasPre => DottedIdents(pre))
       /\ (r4 = Empty \/ (r4[1] = "+" /\ DottedIdents(Tail(r4))))
    THEN [ok |-> TRUE, major |-> major, minor |-> minor, patch |-> patch,
          pre |-> pre, metadata |-> IF r4 = Empty THEN Empty ELSE Tail(r4)]
    ELSE NoVersion

\* (-PRE)? up to the first '+'
ParsePre(major, minor, patch, r3) ==
    IF Len(r3) >= 1 /\ r3[1] = "-"
    THEN ParseMeta(major, minor, patch, TRUE,
                   SubSeq(r3, 2, PlusAt(r3, 1) - 1),
                   SubSeq(r3, PlusAt(r3, 1), Len(r3)))
    ELSE ParseMeta(major, minor, patch, FALSE, Empty, r3)

\* (.PATCH)?
ParsePatch(major, minor, r2) ==
    IF Len(r2) >= 2 /\ r2[1] = "." /\ IsNum(r2[2])
    THEN ParsePre(major, minor, NumVal[r2[2]], SubSeq(r2, 3, Len(r2)))
    ELSE ParsePre(major, minor, 0, r2)

\* (.MINOR)?
ParseMinor(major, r1) ==
    IF Len(r1) >= 2 /\ r1[1] = "." /\ IsNum(r1[2])
    THEN ParsePatch(major, NumVal[r1[2]], SubSeq(r1, 3, Len(r1)))
    ELSE ParsePre(major, 0, 0, r1)

\* MAJOR
ParseMajor(s1) ==
    IF Len(s1) = 0 \/ ~IsNum(s1[1]) THEN NoVersion
    ELSE ParseMinor(NumVal[s1[1]], Tail(s1))

\* semver.NewVersion(v): v?MAJOR(.MINOR)?(.PATCH)?(-PRE)?(+META)?
NewVersion(s) ==
    ParseMajor(IF Len(s) > 0 /\ s[1] = "v" THEN Tail(s) ELSE s)

\* compareSegment(v, o uint64)
compareSegment(a, b) == IF a < b THEN -1 ELSE IF a > b THEN 1 ELSE 0

\* the parts of a prerelease string: strings.Split(pre, ".")
RECURSIVE DotSplitFrom(_, _, _, _)
DotSplitFrom(s, i, cur, acc) ==
    IF i > Len(s) THEN Append(acc, cur)
    ELSE IF s[i] = "." THEN DotSplitFrom(s, i + 1, <<>>, Append(acc, cur))
    ELSE DotSplitFrom(s, i + 1, Append(cur, s[i]), acc)

\* byte-wise s > o on two parts
RECURSIVE StrGreater(_, _, _)
StrGreater(s, o, i) ==
    IF i > Len(s) THEN FALSE
    ELSE IF i > Len(o) THEN TRUE
    ELSE IF Rank[s[i]] # Rank[o[i]] THEN Rank[s[i]] > Rank[o[i]]
    ELSE StrGreater(s, o, i + 1)

\* comparePrePart(s, o string)
comparePrePart(s, o) ==
    LET sNum == Len(s) = 1 /\ IsNum(s[1])
        oNum == Len(o) = 1 /\ IsNum(o[1])
    IN IF s = o THEN 0
       ELSE IF s = Empty THEN -1
       ELSE IF o = Empty THEN 1
       ELSE IF sNum /\ oNum THEN compareSegment(NumVal[s[1]], NumVal[o[1]])
       ELSE IF sNum THEN -1
       ELSE IF oNum THEN 1
       ELSE IF StrGreater(s, o, 1) THEN 1 ELSE -1

\* comparePrerelease(v, o string), from part i on
RECURSIVE comparePartsFrom(_, _, _)
comparePartsFrom(sparts, oparts, i) ==
    IF i > Len(sparts) /\ i > Len(oparts) THEN 0
    ELSE LET stemp == IF i <= Len(sparts) THEN sparts[i] ELSE Empty
             otemp == IF i <= Len(oparts) THEN oparts[i] ELSE Empty
             d == comparePrePart(stemp, otemp)
         IN IF d # 0 THEN d ELSE comparePartsFrom(sparts, oparts, i + 1)

comparePrerelease(v, o) ==
    comparePartsFrom(DotSplitFrom(v, 1, <<>>, <<>>), DotSplitFrom(o, 1, <<>>, <<>>), 1)

\* (v *Version) Compare(o *Version): the metadata is not compared
Compare(v, o) ==
    IF compareSegment(v.major, o.major) # 0 THEN compareSegment(v.major, o.major)
    ELSE IF compareSegment(v.minor, o.minor) # 0 THEN compareSegment(v.minor, o.minor)
    ELSE IF compareSegment(v.patch, o.patch) # 0 THEN compareSegment(v.patch, o.patch)
    ELSE IF v.pre = Empty /\ o.pre = Empty THEN 0
    ELSE IF v.pre = Empty THEN 1
    ELSE IF o.pre = Empty THEN -1
    ELSE comparePrerelease(v.pre, o.pre)

\* a comparison that lets the equal version through
LessThanOrEqual(v, o) == Compare(v, o) <= 0

\* cVer.LessThan(ver)
LessThan(v, o) == Compare(v, o) < 0


\* --------------------------------------------------------------- selection

\* lines 165-168: the comparison of the copy that also compares prerelease
\* and metadata
newer1(cVer, ver) ==
    /\ cVer.ok
    /\ ver.ok
    /\ cVer.pre = ver.pre
    /\ cVer.metadata = ver.metadata
    /\ LessThan(cVer, ver)

\* upd of lines 154-169
upd1(cTag, tag) ==
    IF cTag = latest THEN tag = cTag
    ELSE newer1(NewVersion(cTag), NewVersion(tag))

\* lines 417-418: the comparison of the copy that selects on LessThan alone
newer2(cVer, ver) == cVer.ok /\ ver.ok /\ LessThan(cVer, ver)

\* upd of lines 411-421
upd2(cTag, tag) ==
    IF cTag = latest THEN tag = cTag
    ELSE newer2(NewVersion(cTag), NewVersion(tag))

upd(b, cTag, tag) == IF b = 1 THEN upd1(cTag, tag) ELSE upd2(cTag, tag)

\* line 173 logs cVer.String() and ver.String(); both are nil pointers when
\* the latest branch decided, and String() dereferences its receiver
logPanics(b, cTag) == b = 1 /\ cTag = latest

\* a selection that does not look at the repository
decideAnyRepo(b, cRepo, cTag, repo, tag) ==
    IF upd(b, cTag, tag)
    THEN IF logPanics(b, cTag) THEN "panic" ELSE "select"
    ELSE "skip"

\* lines 150-175 for one listed container: "skip", "select", or "panic"
\* when the container is appended and the log line then dies
decide(b, cRepo, cTag, repo, tag) ==
    IF cRepo = repo /\ upd(b, cTag, tag)
    THEN IF logPanics(b, cTag) THEN "panic" ELSE "select"
    ELSE "skip"

\* one pass of the loop of lines 140-176 with its decision d taken
RECURSIVE SelectFrom(_, _, _, _, _, _)
SelectStep(b, list, repo, tag, i, acc, d) ==
    IF d = "panic" THEN [toUpdate |-> Append(acc, list[i]), panic |-> TRUE]
    ELSE IF d = "select"
         THEN SelectFrom(b, list, repo, tag, i + 1, Append(acc, list[i]))
    ELSE SelectFrom(b, list, repo, tag, i + 1, acc)

\* the loop of lines 140-176 from listing position i on, acc the toUpdate so far
SelectFrom(b, list, repo, tag, i, acc) ==
    IF i > Len(list) THEN [toUpdate |-> acc, panic |-> FALSE]
    ELSE SelectStep(b, list, repo, tag, i, acc,
                    decide(b, cRepoOf(list[i].image), cTagOf(list[i].image),
                           repo, tag))

Select(b, list, repo, tag) == SelectFrom(b, list, repo, tag, 1, <<>>)

\* a parser that takes every string for a reference
AnyRefValid(fullRepo) == TRUE

\* reference.ParseNormalizedNamed(fullRepo): '+' is no character of a
\* repository name or of a tag
RefValid(fullRepo) == \A i \in 1..Len(fullRepo) : fullRepo[i] # "+"

\* the pieces of an image name that hold a '/': a registry port and a path
PathPieces == {"5000/app"}

\* the image name ends in a tag: a ':' with no '/' after it
HasTag(image) ==
    \E i \in 1..Len(image) :
        /\ image[i] = ":"
        /\ \A j \in (i + 1)..Len(image) : image[j] \notin PathPieces

\* the reference an image name stands for: a name without a tag means :latest
NormRef(image) ==
    IF HasTag(image) THEN image ELSE image \o <<":">> \o latest

\* ------------------------------------------------------------------- bounds

\* containers listed by the runtime when the server starts
MaxContainers == 2

\* requests served
MaxCalls == 2

\* goroutines serving requests (one per HTTP request in flight)
Procs == {1, 2}

\* the two copies of the program in src/main.go
Builds == {1, 2}

app == <<"app">>

\* images of the containers that run when the server starts; a container of
\* the bare image app comes about when a latest request is served (line 217)
InitImages ==
    { <<"app", ":", "latest">>,
      <<"app", ":", "1", ".", "2", ".", "0">>,
      <<"app", ":", "1", ".", "3", ".", "0", "-", "beta", "+", "build1">>,
      <<"app", ":", "stable">>,
      <<"db", ":", "1", ".", "2", ".", "0">> }

\* the (repo, tag) pairs of the requests: c.QueryParam("repo"), c.QueryParam("tag")
\* or p.Repository.RepoName, p.Data.Tag
Requests ==
    { <<app, latest>>,
      <<app, <<"1", ".", "3", ".", "0">> >>,
      <<app, <<"2", ".", "0", ".", "0", "-", "beta", "+", "build1">> >>,
      <<app, <<"stable">> >>,
      <<Empty, latest>> }

\* a repository of a registry that is addressed with its port
registry == <<"host", ":", "5000/app">>

\* images of the containers that run when the server starts, some of them
\* from the registry
RegistryImages ==
    { registry \o <<":", "1", ".", "2", ".", "0">>,
      <<"app", ":", "1", ".", "2", ".", "0">> }

\* requests for the repository of the registry and for app
RegistryRequests ==
    { <<registry, <<"1", ".", "3", ".", "0">> >>,
      <<app, <<"1", ".", "3", ".", "0">> >> }

\* containers listed by the runtime when the server starts, where requests overlap
MaxRaceContainers == 1

\* images of the containers that run when the server starts, and the requests,
\* where requests overlap
RaceImages == { <<"app", ":", "1", ".", "2", ".", "0">> }

RaceRequests ==
    { <<app, <<"1", ".", "3", ".", "0">> >>,
      <<app, <<"2", ".", "0", ".", "0">> >> }

\* -------------------------------------------------------------------- state

VARIABLES
    build,       \* which copy of updateContainer runs
    containers,  \* the runtime's containers, newest first
    imgs,        \* the runtime's image store: image id -> the references tagging it
    inv,         \* per goroutine: the locals of its updateContainer call
    prev,        \* what the call before the current one asked for and came to
    calls,       \* requests accepted so far
    ran          \* history: per container name, the images started under it

vars == <<build, containers, imgs, inv, prev, calls, ran>>

\* inspect before cli.ContainerInspect has answered: what the recreation uses
\* of it besides Name and Image
NoInspect == [Config |-> 0, HostConfig |-> 0, Networks |-> {}]

\* the arguments of cli.ContainerCreate before it has been called
NoCreate ==
    [Config |-> 0, Image |-> Empty, HostConfig |-> 0,
     networkingConfig |-> [explicit |-> FALSE, EndpointsConfig |-> {}], Name |-> 0]

\* the locals of a call that has not run
NoCall ==
    [pc |-> "idle", repo |-> Empty, tag |-> Empty, toUpdate |-> <<>>, i |-> 0,
     name |-> 0, nilConfig |-> FALSE, prevImageId |-> 0, created |-> 0,
     inspect |-> NoInspect, createArgs |-> NoCreate,
     result |-> "none", errAt |-> "none", trace |-> <<>>, snap |-> <<>>,
     listed |-> <<>>, pull |-> "none", failed |-> FALSE, lastFailed |-> FALSE,
     rmiFailed |-> FALSE, hardFailed |-> FALSE]

\* what is kept of a call once the next one has begun
Summary(r) ==
    [repo |-> r.repo, tag |-> r.tag, result |-> r.result, errAt |-> r.errAt,
     i |-> r.i,
     names |-> [k \in 1..Len(r.toUpdate) |-> r.toUpdate[k].name]]

\* image id a reference resolves to in the image store, 0 when there is none
TagId(store, ref) ==
    IF \E id \in DOMAIN store : ref \in store[id]
    THEN CHOOSE id \in DOMAIN store : ref \in store[id]
    ELSE 0

\* the image store of a runtime whose containers were each started from the
\* image its reference names: one image per reference
InitImgs(imgList) ==
    LET first(ref) == CHOOSE k \in 1..Len(imgList) :
                         /\ NormRef(imgList[k]) = ref
                         /\ \A j \in 1..(k - 1) : NormRef(imgList[j]) # ref
        refs == { NormRef(imgList[k]) : k \in 1..Len(imgList) }
    IN [id \in { first(r) : r \in refs } |-> { NormRef(imgList[id]) }]

\* The k-th container has its own config and host config; every other one is
\* attached to a network.
InitContainers(imgList) ==
    [k \in 1..Len(imgList) |->
        [id |-> k, name |-> k, image |-> imgList[k],
         imageId |-> TagId(InitImgs(imgList), NormRef(imgList[k])),
         running |-> TRUE,
         Config |-> k, HostConfig |-> k + 10,
         Networks |-> IF k % 2 = 1 THEN {k} ELSE {}]]

\* each name has run the image of its first container, and nothing else
InitRan(imgList) == [k \in 1..Len(imgList) |-> <<imgList[k]>>]

ImageLists == UNION { [1..n -> InitImages] : n \in 0..MaxContainers }

Init ==
    /\ build \in Builds
    /\ \E imgList \in ImageLists :
          /\ containers = InitContainers(imgList)
          /\ imgs = InitImgs(imgList)
          /\ ran = InitRan(imgList)
    /\ inv = [p \in Procs |-> NoCall]
    /\ prev = Summary(NoCall)
    /\ calls = 0

RegistryLists == UNION { [1..n -> RegistryImages] : n \in 0..MaxContainers }

\* the server starts beside containers of the registry's repository
InitRegistry ==
    /\ build \in Builds
    /\ \E imgList \in RegistryLists :
          /\ containers = InitContainers(imgList)
          /\ imgs = InitImgs(imgList)
          /\ ran = InitRan(imgList)
    /\ inv = [p \in Procs |-> NoCall]
    /\ prev = Summary(NoCall)
    /\ calls = 0

RaceLists == UNION { [1..n -> RaceImages] : n \in 0..MaxRaceContainers }

\* the server starts beside containers of app
InitRace ==
    /\ build \in Builds
    /\ \E imgList \in RaceLists :
          /\ containers = InitContainers(imgList)
          /\ imgs = InitImgs(imgList)
          /\ ran = InitRan(imgList)
    /\ inv = [p \in Procs |-> NoCall]
    /\ prev = Summary(NoCall)
    /\ calls = 0

\* ------------------------------------------------------------------ runtime

RECURSIVE SelectRunning(_, _)
SelectRunning(cs, i) ==
    IF i > Len(cs) THEN <<>>
    ELSE IF cs[i].running THEN <<cs[i]>> \o SelectRunning(cs, i + 1)
    ELSE SelectRunning(cs, i + 1)

\* the Image field of a listed container: the name it was created from while
\* that name still resolves to the image it runs, the image id otherwise
ListedImage(store, c) ==
    IF TagId(store, NormRef(c.image)) = c.imageId THEN c.image
    ELSE <<"sha256", ":", ToString(c.imageId)>>

\* cli.ContainerList(ctx, types.ContainerListOptions{}): the running containers
ContainerList(cs, store) ==
    LET run == SelectRunning(cs, 1)
    IN [k \in 1..Len(run) |->
          [id |-> run[k].id, name |-> run[k].name,
           image |-> ListedImage(store, run[k])]]

Exists(cs, id) == \E k \in 1..Len(cs) : cs[k].id = id

Find(cs, id) == cs[CHOOSE k \in 1..Len(cs) : cs[k].id = id]

RECURSIVE Without(_, _, _)
Without(cs, id, i) ==
    IF i > Len(cs) THEN <<>>
    ELSE IF cs[i].id = id THEN Without(cs, id, i + 1)
    ELSE <<cs[i]>> \o Without(cs, id, i + 1)

\* container ids some goroutine or the runtime still holds
UsedCids ==
    { containers[k].id : k \in 1..Len(containers) }
    \cup UNION { { inv[p].toUpdate[k].id : k \in 1..Len(inv[p].toUpdate) } : p \in Procs }
    \cup { inv[p].created : p \in Procs }

FreshCid == CHOOSE n \in 1..(Cardinality(UsedCids) + 1) : n \notin UsedCids

UsedImageIds ==
    DOMAIN imgs
    \cup { containers[k].imageId : k \in 1..Len(containers) }
    \cup { inv[p].prevImageId : p \in Procs }

FreshImageId == CHOOSE n \in 1..(Cardinality(UsedImageIds) + 1) : n \notin UsedImageIds

\* the store after reference ref has been tagged onto a newly pulled image
Retag(store, ref, id) ==
    LET moved == [k \in DOMAIN store |-> store[k] \ {ref}]
    IN [k \in DOMAIN store \cup {id} |->
          IF k = id THEN {ref} ELSE moved[k]]

\* the store after image id has been deleted
Untag(store, id) == [k \in DOMAIN store \ {id} |-> store[k]]

\* ---------------------------------------------------------- updateContainer

\* a runtime call as the trace of an invocation records it
Op(op, id) == [op |-> op, id |-> id]

\* the invocation ends: it returns nil ("ok") or an error ("err"), or it dies
\* of a nil dereference ("panic")
Done(r, result, at) == [r EXCEPT !.pc = "idle", !.result = result, !.errAt = at]

\* the locals once a runtime call has been issued and has answered: the trace
\* records it, and whether it failed
Called(r, op, id, ok) ==
    [r EXCEPT !.trace = Append(@, Op(op, id)),
              !.lastFailed = ~ok,
              !.failed = (@ \/ ~ok),
              !.rmiFailed = (@ \/ (~ok /\ op = "rmi")),
              !.hardFailed = (@ \/ (~ok /\ op # "rmi"))]

\* a loop that begins at the last selected container
LoopFromLast(r) ==
    IF Len(r.toUpdate) >= 1
    THEN [r EXCEPT !.pc = "inspect", !.i = Len(r.toUpdate)]
    ELSE Done(r, "ok", "none")

\* line 204: for _, cnt := range toUpdate, from its first element
LoopStart(r) ==
    IF Len(r.toUpdate) >= 1
    THEN [r EXCEPT !.pc = "inspect", !.i = 1]
    ELSE Done(r, "ok", "none")

\* the end of a pass through the loop of lines 204-252, and lines 254-255
Advance(r) ==
    IF r.i < Len(r.toUpdate)
    THEN [r EXCEPT !.i = @ + 1, !.pc = "inspect"]
    ELSE Done(r, "ok", "none")

\* a failure that is passed over: the loop goes on to the next container
PassOver(r, at) == IF r.i >= 1 THEN Advance(r) ELSE Done(r, "err", at)

\* return _err(...) after a runtime call failed
Fail(r, at) == Done(r, "err", at)

\* an early return that is never taken
NeverNothing(toUpdate) == FALSE

\* line 180: if len(toUpdate) == 0
NothingToDo(toUpdate) == Len(toUpdate) = 0

\* the selection loop is followed by the recreation loop with no pull in between
StraightToLoop(s) ==
    IF NothingToDo(s.toUpdate) THEN Done(s, "ok", "none") ELSE LoopStart(s)

\* lines 177-189 once the selection loop has ended: the early return, the
\* reference check, and on to the pull
AfterSelect(s) ==
    IF NothingToDo(s.toUpdate) THEN Done(s, "ok", "none")
    ELSE IF ~RefValid(fullRepoOf(s.repo, s.tag)) THEN Done(s, "err", "parse")
    ELSE [s EXCEPT !.pc = "pull"]

\* _upd calls updateContainer(repo, tag) in a goroutine that serves no other
\* request; lines 127-132
Begin(repo, tag) ==
    /\ calls < MaxCalls
    /\ \E q \in Procs : inv[q].pc = "idle"
    /\ LET p == CHOOSE q \in Procs : inv[q].pc = "idle"
           r == [NoCall EXCEPT !.repo = repo, !.tag = tag]
       IN /\ prev' = Summary(inv[p])
          /\ inv' = [inv EXCEPT ![p] =
                IF repo = Empty \/ tag = Empty
                THEN Done(r, "err", "validate")
                ELSE [r EXCEPT !.pc = "list"]]
    /\ calls' = calls + 1
    /\ UNCHANGED <<build, containers, imgs, ran>>

\* a request that arrives while no other is being served
Call(repo, tag) ==
    /\ \A q \in Procs : inv[q].pc = "idle"
    /\ Begin(repo, tag)

\* a request that arrives at any time: the HTTP server runs each handler in a
\* goroutine of its own and updateContainer takes no lock
CallOverlapping(repo, tag) == Begin(repo, tag)

\* lines 133-176 with the listing in hand: the selection loop
Selected(r, sel) ==
    IF sel.panic
    THEN Done([r EXCEPT !.toUpdate = sel.toUpdate], "panic", "select")
    ELSE AfterSelect([r EXCEPT !.toUpdate = sel.toUpdate])

\* lines 133-188: ContainerList, the selection loop, the early return and
\* reference.ParseNormalizedNamed
List(p) ==
    /\ inv[p].pc = "list"
    /\ \E ok \in BOOLEAN :
          LET r == [Called(inv[p], "list", 0, ok) EXCEPT !.snap = containers]
              listing == ContainerList(containers, imgs)
          IN inv' = [inv EXCEPT ![p] =
                IF ~ok THEN Fail(r, "list")
                ELSE Selected([r EXCEPT !.listed = listing],
                              Select(build, listing, r.repo, r.tag))]
    /\ UNCHANGED <<build, containers, imgs, prev, calls, ran>>

\* what cli.ImagePull and the drained stream can come to: the call fails
\* ("err"); the pull fails while it streams, which io.Copy's discarded result
\* hides ("streamErr"); the image is already up to date ("same"); a new image
\* is stored under the reference ("new")
PullOutcomes(present) ==
    IF present THEN {"err", "streamErr", "same", "new"}
    ELSE {"err", "streamErr", "new"}

\* lines 192-203 for each outcome of the pull
Pulled(r, out) ==
    IF out = "err" THEN Fail([r EXCEPT !.pull = out], "pull")
    ELSE LoopStart([r EXCEPT !.pull = out])

\* lines 189-203: cli.ImagePull and io.Copy(ioutil.Discard, out)
Pull(p) ==
    /\ inv[p].pc = "pull"
    /\ LET ref == fullRepoOf(inv[p].repo, inv[p].tag)
       IN \E out \in PullOutcomes(TagId(imgs, ref) # 0) :
             /\ inv' = [inv EXCEPT ![p] =
                   Pulled(Called(inv[p], "pull", 0, out \in {"same", "new"}), out)]
             /\ imgs' = IF out = "new" THEN Retag(imgs, ref, FreshImageId) ELSE imgs
    /\ UNCHANGED <<build, containers, prev, calls, ran>>

\* inspect.Config (its fields other than Image), inspect.HostConfig and
\* inspect.NetworkSettings.Networks of the container c
Inspected(c) ==
    [Config |-> c.Config, HostConfig |-> c.HostConfig, Networks |-> c.Networks]

\* lines 205-209: cli.ContainerInspect(ctx, cnt.ID)
Inspect(p) ==
    /\ inv[p].pc = "inspect"
    /\ LET cnt == inv[p].toUpdate[inv[p].i]
       IN \E out \in (IF Exists(containers, cnt.id)
                      THEN {"ok", "nilConfig", "err"} ELSE {"err"}) :
             LET r == Called(inv[p], "inspect", cnt.id, out # "err")
             IN inv' = [inv EXCEPT ![p] =
                IF out = "err" THEN Fail(r, "inspect")
                ELSE [r EXCEPT !.pc = "remove",
                               !.name = Find(containers, cnt.id).name,
                               !.prevImageId = Find(containers, cnt.id).imageId,
                               !.inspect = Inspected(Find(containers, cnt.id)),
                               !.nilConfig = (out = "nilConfig")]]
    /\ UNCHANGED <<build, containers, imgs, prev, calls, ran>>

\* a runtime that removes a container whether it exists or not
CanAlwaysRemove(cs, id) == TRUE

\* line 210: cli.ContainerRemove answers "no such container" for a container
\* that is gone
CanRemove(cs, id) == Exists(cs, id)

\* lines 210-217: cli.ContainerRemove(Force), then contConfig.Image = ...,
\* which dereferences contConfig
Remove(p) ==
    /\ inv[p].pc = "remove"
    /\ LET cnt == inv[p].toUpdate[inv[p].i]
       IN \E ok \in (IF CanRemove(containers, cnt.id) THEN BOOLEAN ELSE {FALSE}) :
             /\ LET r == Called(inv[p], "remove", cnt.id, ok)
                IN inv' = [inv EXCEPT ![p] =
                      IF ~ok THEN Fail(r, "remove")
                      ELSE IF r.nilConfig THEN Done(r, "panic", "config")
                      ELSE [r EXCEPT !.pc = "create"]]
             /\ containers' = IF ok THEN Without(containers, cnt.id, 1) ELSE containers
    /\ UNCHANGED <<build, imgs, prev, calls, ran>>

\* a replacement that is attached to no network
NoNetworking(networks) == [explicit |-> FALSE, EndpointsConfig |-> {}]

\* lines 219-224: networkingConfig, set when the inspected container had
\* network endpoints
NetworkingConfig(networks) ==
    IF networks # {}
    THEN [explicit |-> TRUE, EndpointsConfig |-> networks]
    ELSE [explicit |-> FALSE, EndpointsConfig |-> {}]

\* lines 213-226: the arguments of cli.ContainerCreate
CreateArgs(r, image) ==
    [Config |-> r.inspect.Config, Image |-> image,
     HostConfig |-> r.inspect.HostConfig,
     networkingConfig |-> NetworkingConfig(r.inspect.Networks),
     Name |-> r.name]

\* the container cli.ContainerCreate makes: not yet running
NewContainer(id, args, imageId) ==
    [id |-> id, name |-> args.Name, image |-> args.Image, imageId |-> imageId,
     running |-> FALSE,
     Config |-> args.Config, HostConfig |-> args.HostConfig,
     Networks |-> args.networkingConfig.EndpointsConfig]

\* lines 217-229: cli.ContainerCreate(contConfig, HostConfig, networkingConfig,
\* Name); the runtime refuses a name in use and an image it does not have
Create(p) ==
    /\ inv[p].pc = "create"
    /\ LET image == newImageOf(inv[p].repo, inv[p].tag)
       IN \E ok \in (IF /\ TagId(imgs, NormRef(image)) # 0
                        /\ \A k \in 1..Len(containers) :
                              containers[k].name # inv[p].name
                     THEN BOOLEAN ELSE {FALSE}) :
             /\ LET r == Called(inv[p], "create", inv[p].name, ok)
                IN inv' = [inv EXCEPT ![p] =
                      IF ~ok THEN Fail(r, "create")
                      ELSE [r EXCEPT !.pc = "start", !.created = FreshCid,
                                     !.createArgs = CreateArgs(inv[p], image)]]
             /\ containers' =
                   IF ok
                   THEN <<NewContainer(FreshCid, CreateArgs(inv[p], image),
                                       TagId(imgs, NormRef(image)))>> \o containers
                   ELSE containers
    /\ UNCHANGED <<build, imgs, prev, calls, ran>>

\* the images run under each name once container c runs as well
NowRuns(h, c) == [h EXCEPT ![c.name] = Append(@, c.image)]

\* the runtime's containers once container id runs
Started(cs, id) ==
    [k \in 1..Len(cs) |->
        IF cs[k].id = id THEN [cs[k] EXCEPT !.running = TRUE] ELSE cs[k]]

\* lines 230-232: cli.ContainerStart(ctx, created.ID)
Start(p) ==
    /\ inv[p].pc = "start"
    /\ \E ok \in (IF Exists(containers, inv[p].created) THEN BOOLEAN ELSE {FALSE}) :
             /\ LET r == Called(inv[p], "start", inv[p].created, ok)
                IN inv' = [inv EXCEPT ![p] =
                      IF ~ok THEN Fail(r, "start")
                      ELSE [r EXCEPT !.pc = "reinspect"]]
             /\ containers' =
                   IF ok THEN Started(containers, inv[p].created) ELSE containers
             /\ ran' =
                   IF ok THEN NowRuns(ran, Find(containers, inv[p].created))
                   ELSE ran
    /\ UNCHANGED <<build, imgs, prev, calls>>

\* lines 234-235: cli.ContainerInspect(ctx, created.ID) with its error dropped,
\* then inspect.Image, a nil dereference when the inspect failed
Reinspect(p) ==
    /\ inv[p].pc = "reinspect"
    /\ \E ok \in (IF Exists(containers, inv[p].created) THEN BOOLEAN ELSE {FALSE}) :
          LET r == Called(inv[p], "reinspect", inv[p].created, ok)
          IN inv' = [inv EXCEPT ![p] =
                IF ~ok THEN Done(r, "panic", "reinspect")
                ELSE IF r.prevImageId # Find(containers, r.created).imageId
                     THEN [r EXCEPT !.pc = "rmi"]
                ELSE Advance(r)]
    /\ UNCHANGED <<build, containers, imgs, prev, calls, ran>>

\* a runtime that removes an image whatever was created from it
NeverReferenced(cs, id) == FALSE

\* line 237: cli.ImageRemove without Force is refused while a container,
\* running or not, was created from the image
Referenced(cs, id) == \E k \in 1..Len(cs) : cs[k].imageId = id

\* an image that cannot be removed ends the invocation with an error
StopOnImageRemove(r, ok) == IF ok THEN Advance(r) ELSE Fail(r, "rmi")

\* lines 238-252: the error of cli.ImageRemove is logged, its answer is logged
\* otherwise, and the loop goes on
AfterImageRemove(r, ok) == Advance(r)

\* lines 236-250: cli.ImageRemove(ctx, prevImageId, ImageRemoveOptions{}); the
\* runtime refuses to delete an image a container was created from; a failure
\* is logged and the loop goes on
ImageRemove(p) ==
    /\ inv[p].pc = "rmi"
    /\ LET id == inv[p].prevImageId
       IN \E ok \in (IF id \in DOMAIN imgs /\ ~Referenced(containers, id)
                     THEN BOOLEAN ELSE {FALSE}) :
             /\ inv' = [inv EXCEPT ![p] =
                   AfterImageRemove(Called(inv[p], "rmi", id, ok), ok)]
             /\ imgs' = IF ok THEN Untag(imgs, id) ELSE imgs
    /\ UNCHANGED <<build, containers, prev, calls, ran>>

Next ==
    \/ \E req \in Requests : Call(req[1], req[2])
    \/ \E p \in Procs : List(p)
    \/ \E p \in Procs : Pull(p)
    \/ \E p \in Procs : Inspect(p)
    \/ \E p \in Procs : Remove(p)
    \/ \E p \in Procs : Create(p)
    \/ \E p \in Procs : Start(p)
    \/ \E p \in Procs : Reinspect(p)
    \/ \E p \in Procs : ImageRemove(p)

Spec == Init /\ [][Next]_vars

\* the steps of the invocations once they are called
Steps ==
    \/ \E p \in Procs : List(p)
    \/ \E p \in Procs : Pull(p)
    \/ \E p \in Procs : Inspect(p)
    \/ \E p \in Procs : Remove(p)
    \/ \E p \in Procs : Create(p)
    \/ \E p \in Procs : Start(p)
    \/ \E p \in Procs : Reinspect(p)
    \/ \E p \in Procs : ImageRemove(p)

NextRegistry ==
    \/ \E req \in RegistryRequests : Call(req[1], req[2])
    \/ Steps

NextRace ==
    \/ \E req \in RaceRequests : CallOverlapping(req[1], req[2])
    \/ Steps

\* the server with requests that overlap
SpecRace == InitRace /\ [][NextRace]_vars

\* the server with containers and requests of a registry addressed with its port
SpecRegistry == InitRegistry /\ [][NextRegistry]_vars

\* ------------------------------------------------------------------- claims

\* the invocation has ended, by a return or by a panic
Finished(r) == r.pc = "idle" /\ r.result # "none"

\* the listing succeeded and the selection loop has ended
SelectionDone(r) == r.pc # "list" /\ r.trace # <<>> /\ r.errAt # "list"

\* the listed container cnt is in the selection set of r
InSelection(r, cnt) == \E k \in 1..Len(r.toUpdate) : r.toUpdate[k].id = cnt.id

\* the operations of r's trace, in order
OpsOf(r) == [k \in 1..Len(r.trace) |-> r.trace[k].op]

\* some container named name runs image
RunsImage(name, image) ==
    \E k \in 1..Len(containers) :
        /\ containers[k].name = name
        /\ containers[k].running
        /\ containers[k].image = image

\* C1: with one running container app:latest (or bare app) and the request
\* (app, latest), every runtime call succeeding, the invocation selects the
\* container, pulls, removes it, creates and starts a replacement whose image
\* is exactly app, and returns success.
C1_LatestScenarioSucceeds ==
    \A p \in Procs :
        ( /\ Finished(inv[p])
          /\ inv[p].repo = app /\ inv[p].tag = latest
          /\ ~inv[p].failed /\ ~inv[p].nilConfig
          /\ Len(inv[p].snap) = 1 /\ Len(inv[p].listed) = 1
          /\ inv[p].listed[1].image \in {app, <<"app", ":", "latest">>} )
        => /\ inv[p].result = "ok"
           /\ inv[p].toUpdate = inv[p].listed
           /\ Len(inv[p].trace) >= 6
           /\ SubSeq(OpsOf(inv[p]), 1, 6) =
                 <<"list", "pull", "inspect", "remove", "create", "start">>
           /\ Len(containers) = 1
           /\ RunsImage(inv[p].listed[1].name, app)

\* C2: for every listed container of the requested repository: when the target
\* tag is latest it is in the selection set iff its current tag is latest; when
\* its current tag is latest and the target is a concrete version it is not.
C2_LatestRule ==
    \A p \in Procs :
        SelectionDone(inv[p]) =>
            \A k \in 1..Len(inv[p].listed) :
                cRepoOf(inv[p].listed[k].image) = inv[p].repo =>
                    /\ inv[p].tag = latest =>
                          (InSelection(inv[p], inv[p].listed[k])
                             <=> cTagOf(inv[p].listed[k].image) = latest)
                    /\ (cTagOf(inv[p].listed[k].image) = latest /\ inv[p].tag # latest)
                          => ~InSelection(inv[p], inv[p].listed[k])

\* the rule C3 states for two parsed versions
C3Rule(cVer, ver) ==
    cVer.pre = ver.pre /\ cVer.metadata = ver.metadata /\ Compare(ver, cVer) > 0

\* C3: a listed container of the requested repository whose current tag and
\* the target tag both parse as semantic versions is selected iff prerelease
\* and metadata are equal and the target is strictly greater.
C3_SemverRule ==
    \A p \in Procs :
        SelectionDone(inv[p]) =>
            \A k \in 1..Len(inv[p].listed) :
                ( /\ cRepoOf(inv[p].listed[k].image) = inv[p].repo
                  /\ NewVersion(cTagOf(inv[p].listed[k].image)).ok
                  /\ NewVersion(inv[p].tag).ok )
                => (InSelection(inv[p], inv[p].listed[k])
                      <=> C3Rule(NewVersion(cTagOf(inv[p].listed[k].image)),
                                 NewVersion(inv[p].tag)))


\* r is a second run of the request of the run before it, which returned success
RepeatsSuccess(r) ==
    /\ SelectionDone(r)
    /\ prev.result = "ok"
    /\ prev.repo = r.repo /\ prev.tag = r.tag

\* r selected nothing and issued no call but the listing
OnlyListed(r) ==
    /\ r.toUpdate = <<>>
    /\ \A k \in 1..Len(r.trace) : r.trace[k].op = "list"

\* C4 as stated: for every request, tag latest included, a run that repeats a
\* fully successful run selects nothing and pulls, removes and creates nothing.
C4_IdempotentAnyTag ==
    \A p \in Procs : RepeatsSuccess(inv[p]) => OnlyListed(inv[p])

\* C4 amended: for every request whose tag is not latest, a run that repeats a
\* fully successful run selects nothing and pulls, removes and creates nothing.
C4_IdempotentConcreteTag ==
    \A p \in Procs :
        (RepeatsSuccess(inv[p]) /\ inv[p].tag # latest) => OnlyListed(inv[p])

\* a second run of a concrete-version request whose first run recreated a container
C4_Witness ==
    \E p \in Procs :
        /\ RepeatsSuccess(inv[p])
        /\ inv[p].tag # latest
        /\ Len(prev.names) > 0
        /\ Finished(inv[p])


\* the operations of r's trace that touch a container
TouchOps == {"remove", "create", "start"}

\* C5: once the pull has failed, in the call or while its stream is drained,
\* no container is removed or created, the containers are those the listing
\* found, and the invocation ends reporting failure.
C5_PullFailureAborts ==
    \A p \in Procs :
        inv[p].pull \in {"err", "streamErr"} =>
            /\ \A k \in 1..Len(inv[p].trace) : inv[p].trace[k].op \notin TouchOps
            /\ containers = inv[p].snap
            /\ Finished(inv[p]) /\ inv[p].result = "err"

\* C6: every remove, create and start of an invocation comes after its pull,
\* and the invocation pulls at most once.
C6_PullBeforeTouch ==
    \A p \in Procs :
        /\ \A k \in 1..Len(inv[p].trace) :
              inv[p].trace[k].op \in TouchOps =>
                  \E j \in 1..(k - 1) :
                      inv[p].trace[j].op = "pull" /\ inv[p].pull \in {"same", "new", "streamErr"}
        /\ Cardinality({k \in 1..Len(inv[p].trace) : inv[p].trace[k].op = "pull"}) <= 1

\* an invocation that removed, created and started a container
C6_Witness ==
    \E p \in Procs :
        \A op \in TouchOps : \E k \in 1..Len(inv[p].trace) : inv[p].trace[k].op = op

\* the image the request asks for, as the specification names it: the bare
\* repository for latest, repository:tag otherwise
TargetImage(repo, tag) == IF tag = latest THEN repo ELSE repo \o <<":">> \o tag

\* the calls of the recreation of one container that abort the invocation
RecreationOps == {"inspect", "remove", "create", "start"}

\* the latest runtime call of r
LastOp(r) == r.trace[Len(r.trace)].op

\* the latest runtime call of r was of the recreation of a container and failed
RecreationFailed(r) ==
    r.trace # <<>> /\ r.lastFailed /\ LastOp(r) \in RecreationOps

\* the container the listing of r found under id is as it was found
Untouched(r, id) ==
    /\ Exists(containers, id) /\ Exists(r.snap, id)
    /\ Find(containers, id) = Find(r.snap, id)
    /\ Find(containers, id).running

\* the selected container cnt of r is gone and its name runs the target image
Replaced(r, cnt) ==
    /\ ~Exists(containers, cnt.id)
    /\ RunsImage(cnt.name, TargetImage(r.repo, r.tag))

\* the selected container cnt is gone and nothing runs under its name
Broken(cnt) ==
    /\ ~Exists(containers, cnt.id)
    /\ \A k \in 1..Len(containers) :
          containers[k].name = cnt.name => ~containers[k].running

\* the partial state C7 describes, the failure being at the i-th selected container
PartialState(r) ==
    \A j \in 1..Len(r.toUpdate) :
        IF j < r.i THEN Replaced(r, r.toUpdate[j])
        ELSE IF j > r.i THEN Untouched(r, r.toUpdate[j].id)
        ELSE IF LastOp(r) \in {"inspect", "remove"} THEN Untouched(r, r.toUpdate[j].id)
        ELSE Broken(r.toUpdate[j])

\* C7: when inspect, remove, create or start fails for the k-th selected
\* container the invocation has returned an error at once, the selected
\* containers before k are replaced by containers of the target image, those
\* after k are untouched, and k is untouched (inspect, remove) or gone with
\* nothing running under its name (create, start).
C7_PartialState ==
    \A p \in Procs :
        RecreationFailed(inv[p]) =>
            /\ Finished(inv[p]) /\ inv[p].result = "err"
            /\ inv[p].i \in 1..Len(inv[p].toUpdate)
            /\ PartialState(inv[p])

\* the creation of the second of two selected containers failed
C7_Witness ==
    \E p \in Procs :
        /\ RecreationFailed(inv[p])
        /\ LastOp(inv[p]) = "create"
        /\ inv[p].i = 2

\* r repeats the request of the run before it, which aborted with a recreation error
RetriesAborted(r) ==
    /\ prev.result = "err"
    /\ prev.errAt \in RecreationOps
    /\ prev.repo = r.repo /\ prev.tag = r.tag
    /\ r.trace # <<>>

\* every runtime call of the finished run r succeeded
AllSucceeded(r) == Finished(r) /\ r.result = "ok" /\ ~r.failed

\* the names the aborted run left on the old image: from its failure on when
\* the inspect or the removal failed, after its failure otherwise
LeftOld(s) ==
    {s.names[k] : k \in (IF s.errAt \in {"inspect", "remove"} THEN s.i ELSE s.i + 1)
                         .. Len(s.names)}

\* the names of the selection set of r
SelectedNames(r) == {r.toUpdate[k].name : k \in 1..Len(r.toUpdate)}

\* C8 as stated: a retry of a request that aborted with a recreation error,
\* all of whose runtime calls succeed, ends with every name the aborted run
\* had selected running the target image.
C8_RetryRepairsAll ==
    \A p \in Procs :
        (RetriesAborted(inv[p]) /\ AllSucceeded(inv[p])) =>
            \A k \in 1..Len(prev.names) :
                RunsImage(prev.names[k], TargetImage(inv[p].repo, inv[p].tag))

\* the names the aborted run left broken: removed and not re-created, or
\* created and not started
LeftBroken(s) ==
    IF s.errAt \in {"create", "start"} THEN {s.names[s.i]} ELSE {}

\* some running container has the name
Runs(name) ==
    \E k \in 1..Len(containers) : containers[k].name = name /\ containers[k].running

\* C8 amended: a retry of a request that aborted with a recreation error never
\* selects the container the aborted run left broken; for a concrete version
\* it selects exactly the containers the aborted run left on the old image.
\* When all its runtime calls succeed, the broken name still does not run, and
\* every other name the aborted run had selected runs the target image if the
\* aborted run had replaced it or the retry selected it.
C8_RetryRepairsUntouched ==
    \A p \in Procs :
        RetriesAborted(inv[p]) =>
            /\ SelectionDone(inv[p]) =>
                  /\ SelectedNames(inv[p]) \cap LeftBroken(prev) = {}
                  /\ inv[p].tag # latest => SelectedNames(inv[p]) = LeftOld(prev)
            /\ AllSucceeded(inv[p]) =>
                  \A k \in 1..Len(prev.names) :
                      IF prev.names[k] \in LeftBroken(prev)
                      THEN ~Runs(prev.names[k])
                      ELSE (k < prev.i \/ prev.names[k] \in SelectedNames(inv[p]))
                              => RunsImage(prev.names[k],
                                           TargetImage(inv[p].repo, inv[p].tag))

\* a successful retry after the creation of the first of two selected
\* containers had failed
C8_Witness ==
    \E p \in Procs :
        /\ RetriesAborted(inv[p]) /\ inv[p].tag # latest
        /\ AllSucceeded(inv[p])
        /\ prev.errAt = "create" /\ prev.i = 1 /\ Len(prev.names) = 2
        /\ Len(inv[p].toUpdate) = 1

\* C9: when the selection set computed from the listing is empty the
\* invocation has returned success and its only runtime call is the listing.
C9_EmptySelectionNoCalls ==
    \A p \in Procs :
        (SelectionDone(inv[p]) /\ inv[p].toUpdate = <<>>) =>
            /\ Finished(inv[p]) /\ inv[p].result = "ok"
            /\ OpsOf(inv[p]) = <<"list">>

\* a listing with a container of the requested repository, none of them selected
C9_Witness ==
    \E p \in Procs :
        /\ SelectionDone(inv[p]) /\ inv[p].toUpdate = <<>>
        /\ inv[p].result = "ok"
        /\ \E k \in 1..Len(inv[p].listed) : cRepoOf(inv[p].listed[k].image) = inv[p].repo

\* the comparison of the listed container cnt with the request of r runs into
\* a tag that does not parse (lines 157-164)
ParseFailure(r, cnt) ==
    /\ cRepoOf(cnt.image) = r.repo
    /\ cTagOf(cnt.image) # latest
    /\ ~(NewVersion(cTagOf(cnt.image)).ok /\ NewVersion(r.tag).ok)

\* the listed container cnt is one the selection rule of the build updates
Eligible(r, cnt) ==
    cRepoOf(cnt.image) = r.repo /\ upd(build, cTagOf(cnt.image), r.tag)

\* r has ended, its reference was well-formed and no runtime call went wrong
RanClean(r) ==
    /\ Finished(r) /\ ~r.failed /\ ~r.nilConfig
    /\ RefValid(fullRepoOf(r.repo, r.tag))

\* C10: when the comparison of a listed container meets a tag that does not
\* parse, that container is left out of the selection set, every eligible
\* listed container is in it, and an invocation none of whose runtime calls
\* fails returns success with every eligible container replaced.
C10_ParseFailureSkipsOnly ==
    \A p \in Procs :
        ( /\ SelectionDone(inv[p])
          /\ \E k \in 1..Len(inv[p].listed) : ParseFailure(inv[p], inv[p].listed[k]) )
        => /\ \A k \in 1..Len(inv[p].listed) :
                 /\ ParseFailure(inv[p], inv[p].listed[k])
                       => ~InSelection(inv[p], inv[p].listed[k])
                 /\ Eligible(inv[p], inv[p].listed[k])
                       => InSelection(inv[p], inv[p].listed[k])
           /\ RanClean(inv[p]) =>
                 /\ inv[p].result = "ok"
                 /\ \A k \in 1..Len(inv[p].listed) :
                       Eligible(inv[p], inv[p].listed[k])
                           => Replaced(inv[p], inv[p].listed[k])

\* r has created the replacement of its current container and not gone on
HasCreated(r) == r.pc \in {"start", "reinspect", "rmi"}

\* the selected container r is at, as the listing of r found it
Original(r) == Find(r.snap, r.toUpdate[r.i].id)

LoopGoesOn(r) ==
    \/ r.pc = "inspect" /\ r.result = "none"
    \/ Finished(r) /\ r.result = "ok" /\ r.i = Len(r.toUpdate)

\* C12: right after a failed removal of the previous image the invocation is
\* at its next container or has returned success, and an invocation whose
\* only failed calls are image removals returns success with every selected
\* container replaced.
C12_ImageRemoveFailureIgnored ==
    \A p \in Procs :
        /\ (inv[p].trace # <<>> /\ LastOp(inv[p]) = "rmi" /\ inv[p].lastFailed)
              => LoopGoesOn(inv[p])
        /\ (Finished(inv[p]) /\ inv[p].rmiFailed /\ ~inv[p].hardFailed /\ ~inv[p].nilConfig)
              => /\ inv[p].result = "ok"
                 /\ \A j \in 1..Len(inv[p].toUpdate) : Replaced(inv[p], inv[p].toUpdate[j])

\* success of an invocation that replaced two containers and went on from an
\* image removal to the next container, an image removal having failed
C12_Witness ==
    \E p \in Procs :
        /\ Finished(inv[p]) /\ inv[p].result = "ok"
        /\ inv[p].rmiFailed /\ ~inv[p].hardFailed
        /\ Len(inv[p].toUpdate) = 2
        /\ \E k \in 1..Len(inv[p].trace) :
              /\ inv[p].trace[k].op = "rmi"
              /\ k < Len(inv[p].trace)
              /\ inv[p].trace[k + 1].op = "inspect"

\* C13: no invocation ends other than by returning success or an error.
C13_AlwaysReturns ==
    \A p \in Procs : inv[p].result # "panic"

\* the position of the last ':' of s, 0 when it has none
LastColon(s) ==
    IF \E i \in 1..Len(s) : s[i] = ":"
    THEN CHOOSE i \in 1..Len(s) : s[i] = ":" /\ \A j \in (i + 1)..Len(s) : s[j] # ":"
    ELSE 0

\* the repository of an image name split at its last ':'
RepoAtLastColon(image) ==
    IF LastColon(image) = 0 THEN image ELSE SubSeq(image, 1, LastColon(image) - 1)

\* the tag of an image name split at its last ':', latest when it has none
TagAtLastColon(image) ==
    IF LastColon(image) = 0 \/ LastColon(image) = Len(image) THEN latest
    ELSE SubSeq(image, LastColon(image) + 1, Len(image))

\* C14: every listed image is split into cRepo and cTag at its last ':', and
\* the container is selected iff that repository is the requested one and the
\* rule of the build updates that tag.
C14_SplitAtLastColon ==
    \A p \in Procs :
        SelectionDone(inv[p]) =>
            \A k \in 1..Len(inv[p].listed) :
                /\ cRepoOf(inv[p].listed[k].image) = RepoAtLastColon(inv[p].listed[k].image)
                /\ cTagOf(inv[p].listed[k].image) = TagAtLastColon(inv[p].listed[k].image)
                /\ InSelection(inv[p], inv[p].listed[k])
                      <=> /\ RepoAtLastColon(inv[p].listed[k].image) = inv[p].repo
                          /\ upd(build, TagAtLastColon(inv[p].listed[k].image), inv[p].tag)

\* how many inspects of selected containers the trace of r holds up to position k
InspectsUpTo(r, k) == Cardinality({m \in 1..k : r.trace[m].op = "inspect"})

\* the calls of one full pass of the loop, with and without the image removal
PassOps == <<"inspect", "remove", "create", "start", "reinspect">>
PassOpsRmi == <<"inspect", "remove", "create", "start", "reinspect", "rmi">>

\* the calls before position k of the trace of r end with one full pass
EndsPassBefore(r, k) ==
    \/ k > 5 /\ SubSeq(OpsOf(r), k - 5, k - 1) = PassOps
    \/ k > 6 /\ SubSeq(OpsOf(r), k - 6, k - 1) = PassOpsRmi

\* the position of the container with the id in the listing of r
ListedAt(r, id) == CHOOSE k \in 1..Len(r.listed) : r.listed[k].id = id

\* the selected containers of r that are removed with nothing running under their name
InLimbo(r) ==
    {j \in 1..Len(r.toUpdate) :
        ~Exists(containers, r.toUpdate[j].id) /\ ~Runs(r.toUpdate[j].name)}

\* C15: the selection set is in listing order; the j-th inspect of an
\* invocation is of its j-th selected container and, after the first, follows
\* a full pass for the container before it (replacement started, image
\* reclaimed or not); at most one selected container is removed with no
\* replacement running.
C15_OneAtATimeInOrder ==
    \A p \in Procs :
        /\ \A a, b \in 1..Len(inv[p].toUpdate) :
              a < b => ListedAt(inv[p], inv[p].toUpdate[a].id)
                          < ListedAt(inv[p], inv[p].toUpdate[b].id)
        /\ \A k \in 1..Len(inv[p].trace) :
              inv[p].trace[k].op = "inspect" =>
                  /\ InspectsUpTo(inv[p], k) <= Len(inv[p].toUpdate)
                  /\ inv[p].trace[k].id = inv[p].toUpdate[InspectsUpTo(inv[p], k)].id
                  /\ InspectsUpTo(inv[p], k) > 1 => EndsPassBefore(inv[p], k)
        /\ Cardinality(InLimbo(inv[p])) <= 1

\* the second selected container is removed and not yet replaced
C15_Witness ==
    \E p \in Procs :
        /\ inv[p].pc = "create" /\ inv[p].i = 2
        /\ InLimbo(inv[p]) = {2}

\* r has called the operation op on the container id
Issued(r, op, id) ==
    \E k \in 1..Len(r.trace) : r.trace[k].op = op /\ r.trace[k].id = id

\* r has removed the container id: its remove of it did not fail
RemovedBy(r, id) ==
    \E k \in 1..Len(r.trace) :
        /\ r.trace[k].op = "remove" /\ r.trace[k].id = id
        /\ ~(k = Len(r.trace) /\ r.lastFailed)

\* the invocations p and q have both selected the container id
BothSelected(p, q, id) ==
    /\ p # q
    /\ \E k \in 1..Len(inv[p].toUpdate) : inv[p].toUpdate[k].id = id
    /\ \E k \in 1..Len(inv[q].toUpdate) : inv[q].toUpdate[k].id = id

\* q has ended with an error of its inspect or remove of the container id
LostRace(q, id) ==
    /\ Finished(inv[q]) /\ inv[q].result = "err"
    /\ inv[q].errAt \in {"inspect", "remove"}
    /\ inv[q].toUpdate[inv[q].i].id = id

\* C16: nothing keeps two invocations from selecting the same container and
\* from issuing inspect and remove for it; only one of them removes it, and
\* the other, once it has ended, has failed at its inspect or remove of it.
C16_RaceOneLoses ==
    \A p, q \in Procs : \A id \in 1..(MaxRaceContainers + MaxCalls) :
        (BothSelected(p, q, id) /\ RemovedBy(inv[p], id)) =>
            /\ ~RemovedBy(inv[q], id)
            /\ (Finished(inv[q]) /\ Issued(inv[q], "inspect", id)) => LostRace(q, id)

\* both invocations selected the container and inspected it, one removed it
\* and re-created its name, the other failed on the container that is gone
C16_Witness ==
    \E p, q \in Procs : \E id \in 1..(MaxRaceContainers + MaxCalls) :
        /\ BothSelected(p, q, id)
        /\ RemovedBy(inv[p], id)
        /\ Issued(inv[p], "create", inv[p].name)
        /\ Issued(inv[q], "inspect", id) /\ Issued(inv[q], "remove", id)
        /\ LostRace(q, id)

\* the request of r is complete and its repository:tag is no image reference:
\* the tag carries build metadata, and '+' is no character of a reference
BadReference(r) ==
    /\ r.repo # Empty /\ r.tag # Empty
    /\ \E k \in 1..Len(r.tag) : r.tag[k] = "+"

\* r issued no call but the listing and the containers are as it found them
NothingDone(r) == OpsOf(r) = <<"list">> /\ containers = r.snap

\* C17 as stated: every request whose repository:tag is no valid reference
\* ends in a reported failure, with no pull and no container removed or created.
C17_BadReferenceFails ==
    \A p \in Procs :
        (BadReference(inv[p]) /\ SelectionDone(inv[p])) =>
            /\ Finished(inv[p]) /\ inv[p].result = "err"
            /\ NothingDone(inv[p])

\* C17 amended: a request whose repository:tag is no valid reference ends in
\* a reported failure, with no pull and no container removed or created, when
\* its selection set is not empty; when it is empty the request returns
\* success and the reference is never looked at.
C17_BadReferenceFailsIfSelected ==
    \A p \in Procs :
        (BadReference(inv[p]) /\ SelectionDone(inv[p])) =>
            /\ Finished(inv[p])
            /\ NothingDone(inv[p])
            /\ inv[p].result = IF inv[p].toUpdate # <<>> THEN "err" ELSE "ok"
            /\ inv[p].toUpdate # <<>> => inv[p].errAt = "parse"

\* a request with an invalid reference and a container to update has failed
C17_Witness ==
    \E p \in Procs :
        /\ BadReference(inv[p]) /\ SelectionDone(inv[p])
        /\ inv[p].toUpdate # <<>>
        /\ inv[p].result = "err"

\* C18: every image removal of an invocation directly follows the inspect of
\* a started replacement whose image id is not the id it removes, and no
\* container, selected or not, running or not, is left with an image that
\* has been removed.
C18_ImageReclaimedWhenOrphaned ==
    /\ \A p \in Procs : \A k \in 1..Len(inv[p].trace) :
          inv[p].trace[k].op = "rmi" =>
              /\ k > 2
              /\ inv[p].trace[k - 1].op = "reinspect"
              /\ inv[p].trace[k - 2].op = "start"
              /\ inv[p].trace[k - 2].id = inv[p].trace[k - 1].id
              /\ Exists(containers, inv[p].trace[k - 1].id)
              /\ Find(containers, inv[p].trace[k - 1].id).running
              /\ Find(containers, inv[p].trace[k - 1].id).imageId # inv[p].trace[k].id
    /\ \A c \in 1..Len(containers) : containers[c].imageId \in DOMAIN imgs

\* the removal of the previous image has just been refused while the next
\* selected container, not yet recreated, still runs on that image
C18_Witness ==
    \E p \in Procs :
        /\ inv[p].trace # <<>> /\ LastOp(inv[p]) = "rmi" /\ inv[p].lastFailed
        /\ inv[p].pc = "inspect"
        /\ Exists(containers, inv[p].toUpdate[inv[p].i].id)
        /\ Find(containers, inv[p].toUpdate[inv[p].i].id).imageId
              = inv[p].trace[Len(inv[p].trace)].id

\* the container c, as the listing of r found it, is as it was and r has
\* called nothing for it
OutOfReach(r, c) ==
    /\ Exists(containers, c.id) /\ Find(containers, c.id) = c
    /\ \A k \in 1..Len(r.trace) :
          /\ r.trace[k].op \in {"inspect", "remove"} => r.trace[k].id # c.id
          /\ r.trace[k].op = "create" => r.trace[k].id # c.name
          /\ r.trace[k].op \in {"start", "reinspect"} => r.trace[k].id # c.id

\* C19: a container whose image repository is not the requested one is never
\* inspected, removed, created or started by the invocation, and it stays as
\* it was, image included.
C19_OtherRepositoriesUntouched ==
    \A p \in Procs : \A c \in 1..Len(inv[p].snap) :
        RepoAtLastColon(inv[p].snap[c].image) # inv[p].repo
            => OutOfReach(inv[p], inv[p].snap[c])

\* an invocation has replaced a container beside one of another repository
C19_Witness ==
    \E p \in Procs :
        /\ Finished(inv[p]) /\ inv[p].result = "ok"
        /\ Len(inv[p].toUpdate) > 0
        /\ \E c \in 1..Len(inv[p].snap) :
              RepoAtLastColon(inv[p].snap[c].image) # inv[p].repo

\* the semantic version an image runs, read from the tag after its last ':'
VersionOf(image) == NewVersion(TagAtLastColon(image))

\* the image b was started under a name straight after the image a
Upgrade(a, b) ==
    (VersionOf(a).ok /\ VersionOf(b).ok)
        => Compare(VersionOf(a), VersionOf(b)) < 0

\* C20: whatever the interleaving of the invocations, the images started
\* under one container name run strictly rising semantic versions: no name is
\* taken to a lower or to the same version, and no name is held by two
\* containers.
C20_VersionsOnlyRise ==
    /\ \A n \in DOMAIN ran : \A k \in 1..(Len(ran[n]) - 1) :
          Upgrade(ran[n][k], ran[n][k + 1])
    /\ \A c, d \in 1..Len(containers) :
          containers[c].name = containers[d].name => c = d

\* two overlapping invocations with different targets selected the same
\* container, and its name has been taken to a new version
C20_Witness ==
    \E p, q \in Procs : \E id \in 1..(MaxRaceContainers + MaxCalls) :
        /\ BothSelected(p, q, id)
        /\ inv[p].tag # inv[q].tag
        /\ Finished(inv[p]) /\ Finished(inv[q])
        /\ \E n \in DOMAIN ran : Len(ran[n]) > 1

=============================================================================
